---------------------------- MODULE Spec2Model ----------------------------
(***************************************************************************)
(* Model of backend/main.py of the AI MCQ generator: the word chunker      *)
(* (chunk_text), the generation client's error mapping                     *)
(* (call_ollama_generate), the record validator (validate_mcq), the        *)
(* orchestrator loop (generate_mcqs_from_text) and the /generate_mcq       *)
(* handler (generate_mcq).                                                 *)
(*                                                                         *)
(* Three specifications share the module's variables:                      *)
(*   Spec          one /generate_mcq request, from validation to response  *)
(*   SpecChunk     chunk_text applied to every bounded text and budget     *)
(*   SpecValidate  validate_mcq applied to every bounded candidate record  *)
(***************************************************************************)
EXTENDS Integers, Sequences, FiniteSets, TLC

(* ------------------------------ bounds -------------------------------- *)

\* longest text (in characters) given to chunk_text
MaxTextLen == 6
\* largest max_size argument given to chunk_text (the budget is max_size * 4)
MaxSizeArg == 2
\* largest number of chunks the request's text splits into
MaxChunks == 4
\* how many valid records beyond the asked count a reply may hold
MaxExtra == 1
\* how many invalid records a reply may hold
MaxJunk == 1

(* ------------------------- program constants -------------------------- *)

MAX_QUESTIONS_PER_CHUNK == 5
MIN_QUESTIONS == 1
MAX_QUESTIONS == 20

Min(a, b) == IF a <= b THEN a ELSE b
Max(a, b) == IF a >= b THEN a ELSE b

(* ------------------------------ chunker ------------------------------- *)
(* A text is a sequence of one-character strings; a word is a non-empty    *)
(* sequence of non-whitespace characters.                                  *)

Whitespace == {" ", "\n"}
Chars == Whitespace \cup {"a", "b"}
Texts == UNION {[1..k -> Chars] : k \in 0..MaxTextLen}
SizeArgs == (-1)..MaxSizeArg

RECURSIVE SplitFrom(_, _, _, _)
SplitFrom(text, i, cur, acc) ==
    IF i > Len(text)
    THEN (IF cur = <<>> THEN acc ELSE Append(acc, cur))
    ELSE IF text[i] \in Whitespace
         THEN SplitFrom(text, i + 1, <<>>,
                        IF cur = <<>> THEN acc ELSE Append(acc, cur))
         ELSE SplitFrom(text, i + 1, Append(cur, text[i]), acc)

\* str.split(): the maximal runs of non-whitespace characters, in order
split(text) == SplitFrom(text, 1, <<>>, <<>>)

RECURSIVE join(_)
\* " ".join(parts)
join(parts) ==
    IF parts = <<>> THEN <<>>
    ELSE IF Len(parts) = 1 THEN parts[1]
    ELSE parts[1] \o <<" ">> \o join(Tail(parts))

OverflowsIgnoringWord(current_size, word_size, max_size) ==
    current_size > max_size * 4

\* line 134: current_size + word_size > max_size * 4
Overflows(current_size, word_size, max_size) ==
    current_size + word_size > max_size * 4

RECURSIVE ChunkLoop(_, _, _, _, _, _)
\* lines 132-140: the loop over the words, from word i on
ChunkLoop(words, i, chunks, current_chunk, current_size, max_size) ==
    IF i > Len(words)
    THEN [chunks |-> chunks, current_chunk |-> current_chunk]
    ELSE LET word == words[i]
             word_size == Len(word) + 1
             flush == /\ Overflows(current_size, word_size, max_size)
                      /\ current_chunk # <<>>
             chunks1 == IF flush THEN Append(chunks, join(current_chunk))
                        ELSE chunks
             chunk1 == IF flush THEN <<>> ELSE current_chunk
             size1 == IF flush THEN 0 ELSE current_size
         IN ChunkLoop(words, i + 1, chunks1, Append(chunk1, word),
                      size1 + word_size, max_size)

FinalFlushDropped(chunks, current_chunk) == chunks

\* lines 142-143: the words still pending become the last chunk
FinalFlush(chunks, current_chunk) ==
    IF current_chunk # <<>> THEN Append(chunks, join(current_chunk))
    ELSE chunks

chunk_text(text, max_size) ==
    LET words == split(text)
        r == ChunkLoop(words, 1, <<>>, <<>>, 0, max_size)
        chunks == FinalFlush(r.chunks, r.current_chunk)
    IN IF chunks # <<>> THEN chunks ELSE <<text>>

(* -------------------------- record validator ------------------------- *)
(* A decoded JSON value is a record [t, s, n, items]: t is its Python type  *)
(* ("absent" for a key the dict does not have), s its text, n its number    *)
(* (0/1 for a bool), items its elements when it is a list.                  *)

Val(t, s, n, items) == [t |-> t, s |-> s, n |-> n, items |-> items]
JAbsent == Val("absent", "", 0, <<>>)
JNull == Val("null", "", 0, <<>>)
JStr(s) == Val("str", s, 0, <<>>)
JInt(n) == Val("int", "", n, <<>>)
JBool(b) == Val("bool", "", IF b THEN 1 ELSE 0, <<>>)
JFloat(n) == Val("float", "", n, <<>>)
JList(items) == Val("list", "", 0, items)

\* the pydantic major version the service runs with: the repository pins none
PydanticVersions == {"v1", "v2"}

\* str(v) of a number or a bool, as pydantic v1 coerces it for a str field
PyStr(v) ==
    IF v.t = "bool" THEN (IF v.n = 1 THEN "True" ELSE "False")
    ELSE IF v.t = "float" THEN ToString(v.n) \o ".0"
    ELSE ToString(v.n)

\* a str field of the MCQ model: <<text>>, or <<>> for a ValidationError
StrField(v, pyd) ==
    IF v.t = "str" THEN <<v.s>>
    ELSE IF pyd = "v1" /\ v.t \in {"int", "float", "bool"} THEN <<PyStr(v)>>
    ELSE <<>>

RECURSIVE StrListField(_, _)
\* a JList[str] field: <<the texts>>, or <<>> for a ValidationError
StrListField(items, pyd) ==
    IF items = <<>> THEN << <<>> >>
    ELSE LET h == StrField(items[1], pyd)
             t == StrListField(Tail(items), pyd)
         IN IF h = <<>> \/ t = <<>> THEN <<>>
            ELSE << <<h[1]>> \o t[1] >>

\* an Optional[str] field: <<value>>, or <<>> for a ValidationError
OptStrField(v, pyd) ==
    IF v.t = "null" THEN <<JNull>>
    ELSE LET s == StrField(v, pyd) IN IF s = <<>> THEN <<>> ELSE <<JStr(s[1])>>

\* lines 89-93 and 227-232: MCQ(question=, options=, answer=, explanation=)
MCQModel(question, options, answer, explanation, pyd) ==
    LET q == StrField(question, pyd)
        o == StrListField(options.items, pyd)
        e == OptStrField(explanation, pyd)
    IN IF q = <<>> \/ o = <<>> \/ e = <<>> THEN <<>>
       ELSE << [question |-> q[1], options |-> o[1], answer |-> answer.n,
                explanation |-> e[1]] >>

AnswerOKNoRange(answer) == answer.t \in {"int", "bool"}

\* line 224: isinstance(answer, int) and 0 <= answer <= 3 (a bool is an int)
AnswerOK(answer) ==
    /\ answer.t \in {"int", "bool"}
    /\ 0 <= answer.n /\ answer.n <= 3

\* lines 213-234: <<mcq>> when the record is accepted, <<>> for None
validate_mcq(mcq_dict, pyd) ==
    IF mcq_dict.kind # "dict" THEN <<>>
    ELSE IF \E key \in {"question", "options", "answer"} :
                mcq_dict[key].t = "absent" THEN <<>>
    ELSE IF mcq_dict.options.t # "list" \/ Len(mcq_dict.options.items) # 4
         THEN <<>>
    ELSE IF ~AnswerOK(mcq_dict.answer) THEN <<>>
    ELSE MCQModel(mcq_dict.question, mcq_dict.options, mcq_dict.answer,
                  IF mcq_dict.explanation.t = "absent" THEN JStr("")
                  ELSE mcq_dict.explanation,
                  pyd)

Dict(q, o, a, e) ==
    [kind |-> "dict", question |-> q, options |-> o, answer |-> a,
     explanation |-> e]

FourOptions == JList(<<JStr("A"), JStr("B"), JStr("C"), JStr("D")>>)

QuestionValues == {JAbsent, JNull, JStr(""), JStr("Q"), JInt(7)}
OptionsValues ==
    {JAbsent, JStr("ABCD"), FourOptions,
     JList(<<JStr("A"), JStr("B"), JStr("C")>>),
     JList(<<JStr("A"), JStr("B"), JStr("C"), JStr("D"), JStr("E")>>),
     JList(<<JStr("A"), JInt(2), JStr("C"), JStr("D")>>),
     JList(<<JStr("A"), JStr("B"), JNull, JStr("D")>>)}
AnswerValues ==
    {JAbsent, JNull, JStr("1"), JFloat(1), JBool(TRUE), JBool(FALSE)}
        \cup {JInt(n) : n \in (-1)..4}
ExplanationValues == {JAbsent, JNull, JStr(""), JStr("E"), JInt(7)}

\* the candidate records: every element of a parsed JSON array
Candidates ==
    {Dict(q, o, a, e) : q \in QuestionValues, o \in OptionsValues,
                        a \in AnswerValues, e \in ExplanationValues}
        \cup {[kind |-> "other", question |-> JAbsent, options |-> JAbsent,
               answer |-> JAbsent, explanation |-> JAbsent]}

(* -------------------------- generation client ------------------------- *)

\* what the HTTP exchange of one call does
Transports ==
    {"ok", "bad_status", "connection_refused", "connect_timeout",
     "read_timeout", "malformed_body"}

NoError == [status |-> 0, kind |-> "none", detail |-> ""]
HTTPException(status, kind, detail) ==
    [status |-> status, kind |-> kind, detail |-> detail]

\* lines 150-170: the exception the try body raises ("none": it returns)
RaisedInTry(transport) ==
    CASE transport = "ok" -> "none"
      [] transport = "bad_status" -> "HTTPException"
      [] transport = "connection_refused" -> "ConnectionError"
      [] transport = "connect_timeout" -> "ConnectTimeout"
      [] transport = "read_timeout" -> "ReadTimeout"
      [] transport = "malformed_body" -> "JSONDecodeError"

\* requests.exceptions: ConnectTimeout is both a ConnectionError and a Timeout
IsConnectionError(exc) == exc \in {"ConnectionError", "ConnectTimeout"}
IsTimeout(exc) == exc \in {"ReadTimeout", "ConnectTimeout"}

\* lines 147-183: the error the call raises to its caller (NoError: a reply)
call_ollama_generate(transport) ==
    LET exc == RaisedInTry(transport)
    IN IF exc = "none" THEN NoError
       ELSE IF IsConnectionError(exc)
            THEN HTTPException(503, "ServiceUnavailable",
                               "Cannot connect to Ollama")
       ELSE IF IsTimeout(exc)
            THEN HTTPException(504, "Timeout", "Ollama request timed out")
       ELSE HTTPException(500, "UnknownClientError", "Ollama error")

(* ------------------------------ state --------------------------------- *)

VARIABLES
    pc,                  \* position in the request: request, loop, retry,
                         \* return, done (idle outside Spec)
    request,             \* the MCQRequest: text_blank, n_questions, difficulty
    pydantic,            \* the pydantic major version in use
    n_chunks,            \* len(chunks)
    questions_per_chunk, \* the per-chunk target
    chunk_idx,           \* index of the chunk the loop is at
    all_mcqs,            \* the accumulated MCQs
    last_call,           \* the latest generation call: chunk, k, retry, acc
    n_calls,             \* generation calls issued so far
    n_retries,           \* retry calls issued so far
    after_first,         \* len(all_mcqs) after chunk 0's first attempt (-1: not yet)
    under_produced,      \* some reply held fewer valid records than asked
    last_transport,      \* what the latest call's HTTP exchange did
    outcome,             \* the request's outcome: status, kind, detail
    response,            \* the MCQs of the response
    c_pc, c_text, c_max_size, c_chunks,   \* chunk_text: input and result
    v_pc, v_dict, v_result                \* validate_mcq: input and result

vars ==
    <<pc, request, pydantic, n_chunks, questions_per_chunk, chunk_idx,
      all_mcqs, last_call, n_calls, n_retries, after_first, under_produced,
      last_transport, outcome, response,
      c_pc, c_text, c_max_size, c_chunks, v_pc, v_dict, v_result>>

reqVars ==
    <<pc, request, n_chunks, questions_per_chunk, chunk_idx,
      all_mcqs, last_call, n_calls, n_retries, after_first, under_produced,
      last_transport, outcome, response>>
chunkVars == <<c_pc, c_text, c_max_size, c_chunks>>
validateVars == <<v_pc, v_dict, v_result>>

Difficulties == {"easy", "medium", "hard", "extreme"}
Requests ==
    [text_blank : BOOLEAN,
     n_questions : (MIN_QUESTIONS - 1)..(MAX_QUESTIONS + 1),
     difficulty : Difficulties]

NoCall == [chunk |-> -1, k |-> 0, retry |-> FALSE, acc |-> 0]
NoCandidate ==
    [kind |-> "other", question |-> JAbsent, options |-> JAbsent,
     answer |-> JAbsent, explanation |-> JAbsent]

ReqIdle ==
    /\ pc = "idle"
    /\ request = [text_blank |-> FALSE, n_questions |-> MIN_QUESTIONS,
                  difficulty |-> "medium"]
    /\ n_chunks = 0 /\ questions_per_chunk = 0 /\ chunk_idx = 0
    /\ all_mcqs = <<>> /\ last_call = NoCall /\ n_calls = 0 /\ n_retries = 0
    /\ after_first = -1 /\ under_produced = FALSE /\ last_transport = "none"
    /\ outcome = NoError /\ response = <<>>
ChunkIdle ==
    c_pc = "idle" /\ c_text = <<>> /\ c_max_size = 0 /\ c_chunks = <<>>
ValidateIdle ==
    v_pc = "idle" /\ v_dict = NoCandidate /\ v_result = <<>>

(* ------------------------- chunk_text, applied ------------------------ *)

InitChunk ==
    /\ c_pc = "call" /\ c_text \in Texts /\ c_max_size \in SizeArgs
    /\ c_chunks = <<>>
    /\ pydantic = "v2" /\ ReqIdle /\ ValidateIdle

chunk_text_call ==
    /\ c_pc = "call"
    /\ c_chunks' = chunk_text(c_text, c_max_size)
    /\ c_pc' = "done"
    /\ UNCHANGED <<c_text, c_max_size, pydantic, reqVars, validateVars>>

NextChunk == chunk_text_call
SpecChunk == InitChunk /\ [][NextChunk]_vars

(* ------------------------ validate_mcq, applied ----------------------- *)

InitValidate ==
    /\ v_pc = "call" /\ v_dict \in Candidates /\ v_result = <<>>
    /\ pydantic \in PydanticVersions /\ ReqIdle /\ ChunkIdle

validate_mcq_call ==
    /\ v_pc = "call"
    /\ v_result' = validate_mcq(v_dict, pydantic)
    /\ v_pc' = "done"
    /\ UNCHANGED <<v_dict, pydantic, reqVars, chunkVars>>

NextValidate == validate_mcq_call
SpecValidate == InitValidate /\ [][NextValidate]_vars

(* ---------------------- /generate_mcq, one request -------------------- *)

ValidationErrorNoDifficulty(req) ==
    IF req.text_blank THEN "Text cannot be empty"
    ELSE IF req.n_questions < MIN_QUESTIONS \/ req.n_questions > MAX_QUESTIONS
         THEN "Number of questions must be between 1 and 20"
    ELSE ""

\* lines 328-335: the detail of the 400 raised for the request ("": none)
ValidationError(req) ==
    IF req.text_blank THEN "Text cannot be empty"
    ELSE IF req.n_questions < MIN_QUESTIONS \/ req.n_questions > MAX_QUESTIONS
         THEN "Number of questions must be between 1 and 20"
    ELSE IF req.difficulty \notin {"easy", "medium", "hard"}
         THEN "Difficulty must be easy, medium, or hard"
    ELSE ""

QuestionsPerChunkNoFloor(n, c) == Min(MAX_QUESTIONS_PER_CHUNK, n \div c)

\* lines 242-245: min(MAX_QUESTIONS_PER_CHUNK, max(1, n_questions // len(chunks)))
QuestionsPerChunk(n, c) == Min(MAX_QUESTIONS_PER_CHUNK, Max(1, n \div c))

\* line 253: min(remaining, questions_per_chunk)
chunk_questions(remaining, qpc) == Min(remaining, qpc)

RaisesOnlyUnavailable(err) == err.kind = "ServiceUnavailable"

\* lines 263 and 277: the call is in no try block, so any error it raises
\* leaves generate_mcqs_from_text and generate_mcq at once
Raises(err) == err # NoError

AcceptsUncapped(mcq, all, n) == mcq # <<>>

\* lines 271 and 281: if mcq and len(all_mcqs) < n_questions
Accepts(mcq, all, n) == mcq # <<>> /\ Len(all) < n

RECURSIVE Accumulate(_, _, _, _)
\* lines 269-272 and 279-282: validate each candidate, append the accepted
Accumulate(all, mcq_dicts, n, pyd) ==
    IF mcq_dicts = <<>> THEN all
    ELSE LET mcq == validate_mcq(mcq_dicts[1], pyd)
         IN Accumulate(IF Accepts(mcq, all, n) THEN Append(all, mcq[1])
                       ELSE all,
                       Tail(mcq_dicts), n, pyd)

NeedsRetryAnyChunk(all, idx) == Len(all) = 0

\* line 275: len(all_mcqs) == 0 and chunk_idx == 0
NeedsRetry(all, idx) == Len(all) = 0 /\ idx = 0

GoodRecord == Dict(JStr("Q"), FourOptions, JInt(0), JStr("E"))
JunkRecord == Dict(JStr("Q"), FourOptions, JAbsent, JAbsent)

\* line 170: what result.get("response", "") returns for a 200 with a JSON
\* object body: a text, or whatever other JSON value the field holds
ResponseValues ==
    {"text", "null", "number", "deep_array_text", "huge_int_text"}

\* lines 185-211: the exception extract_json_from_response lets out ("none":
\* it returns a list). Only json.JSONDecodeError is caught at lines 192, 200
\* and 208, so every other exception of the three json.loads gets out:
\* TypeError for a value that is no text, RecursionError for brackets nested
\* beyond the recursion limit, a plain ValueError for an integer literal
\* longer than the interpreter's digit limit for int() (4300 by default)
ParseRaises(reply) ==
    CASE reply = "text" -> "none"
      [] reply \in {"null", "number"} -> "TypeError"
      [] reply = "deep_array_text" -> "RecursionError"
      [] reply = "huge_int_text" -> "ValueError"

\* what extract_json_from_response returns for a reply to a prompt asking
\* for k questions: some invalid records, then some valid ones ([] included)
Replies(k) ==
    {[i \in 1..(j + v) |-> IF i <= j THEN JunkRecord ELSE GoodRecord] :
        j \in 0..MaxJunk, v \in 0..(k + MaxExtra)}

ValidCount(mcq_dicts, pyd) ==
    Cardinality({i \in 1..Len(mcq_dicts) :
                    validate_mcq(mcq_dicts[i], pyd) # <<>>})

Init ==
    /\ pc = "request"
    /\ request \in Requests
    /\ pydantic \in PydanticVersions
    /\ n_chunks = 0 /\ questions_per_chunk = 0 /\ chunk_idx = 0
    /\ all_mcqs = <<>> /\ last_call = NoCall /\ n_calls = 0 /\ n_retries = 0
    /\ after_first = -1 /\ under_produced = FALSE /\ last_transport = "none"
    /\ outcome = NoError /\ response = <<>>
    /\ ChunkIdle /\ ValidateIdle

\* lines 328-335: the request fails validation
generate_mcq_reject ==
    /\ pc = "request"
    /\ ValidationError(request) # ""
    /\ outcome' = HTTPException(400, "ValidationError", ValidationError(request))
    /\ pc' = "done"
    /\ UNCHANGED <<request, pydantic, n_chunks, questions_per_chunk, chunk_idx,
                   all_mcqs, last_call, n_calls, n_retries, after_first,
                   under_produced, last_transport, response,
                   chunkVars, validateVars>>

\* lines 328-338 and 238-245: the request passes validation;
\* generate_mcqs_from_text chunks the text and sets the per-chunk target
generate_mcq_accept ==
    /\ pc = "request"
    /\ ValidationError(request) = ""
    /\ \E c \in 1..MaxChunks :
          /\ n_chunks' = c
          /\ questions_per_chunk' = QuestionsPerChunk(request.n_questions, c)
    /\ chunk_idx' = 0
    /\ all_mcqs' = <<>>
    /\ pc' = "loop"
    /\ UNCHANGED <<request, pydantic, last_call, n_calls, n_retries,
                   after_first, under_produced, last_transport, outcome,
                   response, chunkVars, validateVars>>

\* a generation call fails: its error is the request's outcome
CallFails(err) ==
    /\ outcome' = err
    /\ response' = <<>>
    /\ pc' = "done"
    /\ UNCHANGED <<all_mcqs, chunk_idx, after_first, under_produced>>

\* lines 266 and 278: extract_json_from_response raises; nothing catches it,
\* so it leaves generate_mcqs_from_text and generate_mcq as a server error
ParseFails(exc) ==
    /\ outcome' = HTTPException(500, "UnhandledError", exc)
    /\ response' = <<>>
    /\ pc' = "done"
    /\ UNCHANGED <<all_mcqs, chunk_idx, after_first, under_produced>>

\* lines 247-275: one chunk's first attempt
chunk_call ==
    /\ pc = "loop"
    /\ chunk_idx < n_chunks
    /\ request.n_questions - Len(all_mcqs) > 0
    /\ LET remaining == request.n_questions - Len(all_mcqs)
           k == chunk_questions(remaining, questions_per_chunk)
       IN /\ last_call' = [chunk |-> chunk_idx, k |-> k, retry |-> FALSE,
                           acc |-> Len(all_mcqs)]
          /\ n_calls' = n_calls + 1
          /\ \E transport \in Transports :
                LET err == call_ollama_generate(transport)
                IN /\ last_transport' = transport
                   /\ IF Raises(err) THEN CallFails(err)
                      ELSE \E reply \in ResponseValues :
                        IF ParseRaises(reply) # "none"
                        THEN ParseFails(ParseRaises(reply))
                        ELSE \E mcq_dicts \in Replies(k) :
                             LET all == Accumulate(all_mcqs, mcq_dicts,
                                                   request.n_questions, pydantic)
                             IN /\ all_mcqs' = all
                                /\ after_first' =
                                     IF chunk_idx = 0 THEN Len(all)
                                     ELSE after_first
                                /\ under_produced' =
                                     (under_produced
                                        \/ ValidCount(mcq_dicts, pydantic) < k)
                                /\ IF NeedsRetry(all, chunk_idx)
                                   THEN pc' = "retry" /\ chunk_idx' = chunk_idx
                                   ELSE pc' = "loop"
                                        /\ chunk_idx' = chunk_idx + 1
                                /\ UNCHANGED <<outcome, response>>
    /\ UNCHANGED <<request, pydantic, n_chunks, questions_per_chunk,
                   n_retries, chunkVars, validateVars>>

\* lines 276-282: the retry, with the first attempt's prompt extended
retry_call ==
    /\ pc = "retry"
    /\ last_call' = [last_call EXCEPT !.retry = TRUE, !.acc = Len(all_mcqs)]
    /\ n_calls' = n_calls + 1
    /\ n_retries' = n_retries + 1
    /\ \E transport \in Transports :
          LET err == call_ollama_generate(transport)
          IN /\ last_transport' = transport
             /\ IF Raises(err) THEN CallFails(err)
                ELSE \E reply \in ResponseValues :
                  IF ParseRaises(reply) # "none"
                  THEN ParseFails(ParseRaises(reply))
                  ELSE \E mcq_dicts \in Replies(last_call.k) :
                       /\ all_mcqs' = Accumulate(all_mcqs, mcq_dicts,
                                                 request.n_questions, pydantic)
                       /\ under_produced' =
                            (under_produced
                               \/ ValidCount(mcq_dicts, pydantic) < last_call.k)
                       /\ pc' = "loop"
                       /\ chunk_idx' = chunk_idx + 1
                       /\ UNCHANGED <<after_first, outcome, response>>
    /\ UNCHANGED <<request, pydantic, n_chunks, questions_per_chunk,
                   chunkVars, validateVars>>

\* lines 249-251: the target is met before the chunks are used up
loop_break ==
    /\ pc = "loop"
    /\ chunk_idx < n_chunks
    /\ request.n_questions - Len(all_mcqs) <= 0
    /\ pc' = "return"
    /\ UNCHANGED <<request, pydantic, n_chunks, questions_per_chunk, chunk_idx,
                   all_mcqs, last_call, n_calls, n_retries, after_first,
                   under_produced, last_transport, outcome, response,
                   chunkVars, validateVars>>

\* line 247: no chunk is left
loop_end ==
    /\ pc = "loop"
    /\ chunk_idx = n_chunks
    /\ pc' = "return"
    /\ UNCHANGED <<request, pydantic, n_chunks, questions_per_chunk, chunk_idx,
                   all_mcqs, last_call, n_calls, n_retries, after_first,
                   under_produced, last_transport, outcome, response,
                   chunkVars, validateVars>>

\* lines 284 and 340-346: the MCQs go back to the handler, which answers
generate_mcq_respond ==
    /\ pc = "return"
    /\ IF all_mcqs = <<>>
       THEN /\ outcome' = HTTPException(500, "GenerationExhausted",
                                        "Failed to generate valid MCQs")
            /\ response' = <<>>
       ELSE /\ outcome' = HTTPException(200, "ok", "")
            /\ response' = all_mcqs
    /\ pc' = "done"
    /\ UNCHANGED <<request, pydantic, n_chunks, questions_per_chunk, chunk_idx,
                   all_mcqs, last_call, n_calls, n_retries, after_first,
                   under_produced, last_transport, chunkVars, validateVars>>

Next ==
    \/ generate_mcq_reject
    \/ generate_mcq_accept
    \/ chunk_call
    \/ retry_call
    \/ loop_break
    \/ loop_end
    \/ generate_mcq_respond

Spec == Init /\ [][Next]_vars

(* ------------------------------ claims -------------------------------- *)

ClientErrorKinds ==
    {"ServiceUnavailable", "Timeout", "ServiceError", "UnknownClientError"}

\* C1: the accumulated list, and the response, never hold more than
\* n_questions MCQs, whatever the chunk count and whatever each reply yields
\* (replies with more valid records than asked, and the retry, included).
C1_CapNeverExceeded ==
    /\ Len(all_mcqs) <= request.n_questions
    /\ Len(response) <= request.n_questions

\* the retry on chunk 0 got more valid records than it asked for and the
\* list stopped at the requested total
C1_Witness ==
    /\ last_call.retry /\ last_call.acc = 0
    /\ last_call.k < request.n_questions
    /\ Len(all_mcqs) = request.n_questions

\* the MCQ shape as the claim states it, of a candidate record
WellShapedRecord(d) ==
    /\ d.kind = "dict"
    /\ d.question.t = "str" /\ d.question.s # ""
    /\ d.options.t = "list" /\ Len(d.options.items) = 4
    /\ \A i \in 1..Len(d.options.items) : d.options.items[i].t = "str"
    /\ d.answer.t = "int" /\ d.answer.n \in 0..3
    /\ d.explanation.t \in {"absent", "str"}

\* the MCQ shape as the claim states it, of an accepted MCQ
WellShapedMCQ(m) ==
    /\ m.question # ""
    /\ Len(m.options) = 4
    /\ m.answer \in 0..3
    /\ m.explanation.t = "str"

\* C2: validate_mcq accepts a record only if it has the full MCQ shape
\* (non-empty question text, exactly 4 option strings, an integer answer in
\* 0..3 that is no boolean, a text explanation defaulting to ""), and every
\* accepted MCQ has that shape; every other record is rejected.
C2_AcceptedHasFullShape ==
    v_pc = "done" =>
        /\ v_result # <<>> => WellShapedRecord(v_dict)
        /\ v_result # <<>> => WellShapedMCQ(v_result[1])
        /\ (v_dict.explanation.t = "absent" /\ v_result # <<>>)
              => v_result[1].explanation = JStr("")

\* C3: when no generation call under-produced, the response holds exactly
\* n_questions MCQs.
C3_TargetReached ==
    (pc = "done" /\ outcome.kind \in {"ok", "GenerationExhausted"}
       /\ ~under_produced)
        => Len(response) = request.n_questions

\* C4: a generation call that fails ends the request at once with that
\* failure as its outcome: no MCQ is returned and no later call is issued.
C4_FailureEndsRequest ==
    /\ [](\/ n_calls = 0
          \/ call_ollama_generate(last_transport) = NoError
          \/ /\ pc = "done"
             /\ outcome = call_ollama_generate(last_transport)
             /\ outcome.kind \in ClientErrorKinds
             /\ response = <<>>)
    /\ [][outcome.kind \in ClientErrorKinds => n_calls' = n_calls]_vars

\* a call on a later chunk timed out with MCQs of earlier chunks accumulated
\* and chunks still to go
C4_Witness ==
    /\ outcome.kind = "Timeout"
    /\ Len(all_mcqs) > 0
    /\ chunk_idx >= 1 /\ chunk_idx + 1 < n_chunks
    /\ response = <<>>

RequestValid ==
    /\ ~request.text_blank
    /\ request.n_questions >= 1 /\ request.n_questions <= 20
    /\ request.difficulty \in {"easy", "medium", "hard"}

\* C5: a generation call is issued only for a request whose text is not
\* blank, whose n_questions is in 1..20 and whose difficulty is easy, medium
\* or hard; any other request ends in a validation error with no call.
C5_ValidatedBeforeAnyCall ==
    /\ n_calls > 0 => RequestValid
    /\ pc # "request" /\ ~RequestValid =>
          /\ pc = "done"
          /\ outcome.kind = "ValidationError" /\ outcome.status = 400
          /\ n_calls = 0 /\ response = <<>>

\* a request that is fine but for its difficulty was rejected
C5_Witness ==
    /\ pc = "done"
    /\ ~request.text_blank /\ request.n_questions \in 1..20
    /\ request.difficulty = "extreme"
    /\ outcome.kind = "ValidationError"

\* sum over the words of (word length + 1)
RECURSIVE RunningTotal(_)
RunningTotal(words) ==
    IF words = <<>> THEN 0
    ELSE Len(words[1]) + 1 + RunningTotal(Tail(words))

\* C6: chunk_text returns at least one chunk; for a text with words, the
\* words of the space-joined chunks are the words of the text, in order; for
\* a text without words the result is the text alone.
C6_ChunksKeepTheWords ==
    c_pc = "done" =>
        /\ Len(c_chunks) >= 1
        /\ split(c_text) # <<>> => split(join(c_chunks)) = split(c_text)
        /\ split(c_text) = <<>> => c_chunks = <<c_text>>

\* a text with irregular whitespace was split into several chunks, one of
\* them of two words or more
C6_Witness ==
    /\ c_pc = "done"
    /\ Len(c_chunks) >= 2
    /\ \E i \in 1..Len(c_chunks) : Len(split(c_chunks[i])) >= 2
    /\ join(c_chunks) # c_text

\* C7: for a text with words, every chunk is non-empty and either its running
\* total is within max_size * 4 or it is one word that alone exceeds it; a
\* word over the budget is a chunk by itself, whole.
C7_ChunksWithinBudget ==
    (c_pc = "done" /\ split(c_text) # <<>>) =>
        \A i \in 1..Len(c_chunks) :
            LET ws == split(c_chunks[i])
            IN /\ c_chunks[i] # <<>>
               /\ Len(ws) >= 1
               /\ \/ RunningTotal(ws) <= c_max_size * 4
                  \/ Len(ws) = 1 /\ Len(ws[1]) + 1 > c_max_size * 4
               /\ (\E j \in 1..Len(ws) : Len(ws[j]) + 1 > c_max_size * 4)
                     => /\ Len(ws) = 1
                        /\ c_chunks[i] = ws[1]
                        /\ \E j \in 1..Len(split(c_text)) :
                               split(c_text)[j] = ws[1]

\* under a positive budget, a word over the budget is a chunk of its own next
\* to a chunk within the budget
C7_Witness ==
    /\ c_pc = "done"
    /\ c_max_size >= 1
    /\ \E i \in 1..Len(c_chunks) :
          Len(split(c_chunks[i])) = 1 /\ Len(c_chunks[i]) + 1 > c_max_size * 4
    /\ \E i \in 1..Len(c_chunks) :
          RunningTotal(split(c_chunks[i])) <= c_max_size * 4

\* the error the claim assigns to each failure mode
ClaimedErrorKind(transport) ==
    CASE transport = "connection_refused" -> {"ServiceUnavailable"}
      [] transport = "read_timeout" -> {"Timeout"}
      [] transport = "connect_timeout" -> {"ServiceUnavailable", "Timeout"}
      [] transport = "bad_status" -> {"ServiceError"}
      [] transport = "malformed_body" -> {"UnknownClientError"}
      [] OTHER -> {"none"}

\* C8: each failure mode of call_ollama_generate reaches the caller as its
\* own error; a non-success status reaches it as ServiceError.
C8_DistinctErrors ==
    (n_calls > 0 /\ last_transport # "ok" /\ pc = "done")
        => outcome.kind \in ClaimedErrorKind(last_transport)

\* C9: at most one retry per request, only on chunk 0 and only with nothing
\* accumulated after its first attempt, and always then; never more than
\* chunk_count + 1 generation calls.
C9_SingleRetryOnFirstChunk ==
    /\ n_retries <= 1
    /\ n_calls <= n_chunks + 1
    /\ last_call.retry => last_call.chunk = 0 /\ last_call.acc = 0
    /\ pc = "retry" => chunk_idx = 0 /\ Len(all_mcqs) = 0 /\ n_retries = 0
    /\ n_retries = 1 => after_first = 0
    /\ after_first = 0 => pc = "retry" \/ n_retries = 1
    /\ n_retries = 0 => n_calls <= n_chunks

\* a request over several chunks used its retry and every chunk, and answered
C9_Witness ==
    /\ pc = "done" /\ outcome.kind = "ok"
    /\ n_chunks >= 2
    /\ n_retries = 1
    /\ n_calls = n_chunks + 1

\* C10: each generation call is for the chunk the loop is at, chunks taken in
\* order without a gap, and asks for k = min(remaining, per-chunk target),
\* with 1 <= k <= MAX_QUESTIONS_PER_CHUNK and k <= n_questions - accumulated;
\* no call is issued once the accumulated count has reached n_questions.
C10_CallsAskWithinTarget ==
    [][n_calls' # n_calls =>
          LET n == request.n_questions
              acc == Len(all_mcqs)
              target == Min(MAX_QUESTIONS_PER_CHUNK, Max(1, n \div n_chunks))
              k == last_call'.k
          IN /\ n_calls' = n_calls + 1
             /\ acc < n
             /\ k = Min(n - acc, target)
             /\ 1 <= k /\ k <= MAX_QUESTIONS_PER_CHUNK
             /\ k <= n - acc
             /\ last_call'.chunk = chunk_idx
             /\ last_call'.acc = acc
             /\ IF last_call'.retry
                THEN last_call'.chunk = last_call.chunk
                ELSE last_call'.chunk = last_call.chunk + 1]_vars

\* a later chunk was asked for fewer questions than the per-chunk target,
\* exactly what was still missing
C10_Witness ==
    /\ n_calls > 0
    /\ last_call.chunk >= 1
    /\ last_call.k < questions_per_chunk
    /\ last_call.k = request.n_questions - last_call.acc

=============================================================================
